---- MODULE Spec2Model ----
(***************************************************************************)
(* A model of the S-expression interpreter: Parser::tokenise,              *)
(* Parser::parse and Parser::eval of src/src/main.rs over the EnvManager   *)
(* arena of src/src/env.rs.                                                *)
(*                                                                         *)
(* A Rust panic (unwrap on None, index out of bounds, assert!, panic!) is  *)
(* the way this program fails; it is modelled as a failure result that     *)
(* leaves the store as it was at the point of the panic.                   *)
(***************************************************************************)
EXTENDS Integers, Sequences, FiniteSets, TLC

VARIABLES
    mode,     \* which entry point of the program this behaviour exercises
    text,     \* tokenise: the input String, as a sequence of characters
    tokens,   \* the Tokens deque (output of tokenise, input of parse)
    parsed,   \* the outcome of Parser::parse
    envs,     \* EnvManager.envs : id -> Env {id, parent, variables}
    parents,  \* EnvManager.parents : id -> EnvId
    counter,  \* EnvManager.counter
    stack,    \* the activation records of Parser::eval, innermost first
    ret,      \* the Option<EnvType> returned by the activation that just ended
    status,   \* "idle" | "running" | "panicked"
    nforms,   \* number of top-level forms main has handed to eval
    envs0,    \* history: envs when the current top-level form was started
    last      \* history: what the last step of eval did

vars == <<mode, text, tokens, parsed, envs, parents, counter, stack, ret,
          status, nforms, envs0, last>>

\* ------------------------------------------------------------------ bounds
MaxLen == 4      \* longest input text given to tokenise
MaxToks == 5     \* longest token sequence given to parse
MaxForms == 4    \* top-level forms main evaluates in one run
MaxDepth == 6    \* nested activations of eval (the native call stack)

\* ------------------------------------------------------------- Option<T>
None == <<>>
Some(x) == <<x>>
IsSome(o) == Len(o) = 1
Unwrap(o) == o[1]

\* ------------------------------------------------------------ Node / Ast
Symbol(s) == [k |-> "Symbol", s |-> s]
Number(n) == [k |-> "Number", n |-> n]
Body(c)   == [k |-> "Body", c |-> c]
IsLeaf(a) == a.k # "Body"

\* ------------------------------------------------------------- tokenise
Chars == {"(", ")", " ", "\t", "a", "b"}

RECURSIVE SeqsUpTo(_, _)
SeqsUpTo(S, n) ==
    IF n = 0 THEN {<<>>}
    ELSE LET shorter == SeqsUpTo(S, n - 1)
         IN shorter \cup {Append(s, c) : s \in {t \in shorter : Len(t) = n - 1}, c \in S}

\* the flush of the accumulator before a paren or on a space
Flush(toks, acc) == IF Len(acc) > 0 THEN Append(toks, acc) ELSE toks

\* what tokenise returns once chars.next() is None
TokEnd(toks, acc) == toks

RECURSIVE TokLoop(_, _, _, _)
TokLoop(s, i, acc, toks) ==
    IF i > Len(s) THEN TokEnd(toks, acc)
    ELSE LET c == s[i] IN
         CASE c \in {"(", ")"} -> TokLoop(s, i + 1, <<>>, Append(Flush(toks, acc), <<c>>))
           [] c = " "          -> TokLoop(s, i + 1, <<>>, Flush(toks, acc))
           [] OTHER            -> TokLoop(s, i + 1, Append(acc, c), toks)

tokenise(s) == TokLoop(s, 1, <<>>, <<>>)

\* ---------------------------------------------------------------- parse
\* parse takes each token whole, so a token is a string here; tokenise above
\* builds its tokens character by character, as sequences of characters.
\* ParseF64 is tok.parse::<f64>() on the literals the inputs use; an f64 is kept
\* in thousandths so that pi has a representation.
F64Lits == {"1", "2", "3", "5", "7", "9"}
ParseF64(tok) ==
    CASE tok = "1" -> 1000 [] tok = "2" -> 2000 [] tok = "3" -> 3000
      [] tok = "5" -> 5000 [] tok = "7" -> 7000 [] tok = "9" -> 9000

ParseAtom(tok) == IF tok \in F64Lits THEN Number(ParseF64(tok)) ELSE Symbol(tok)

\* AstNode::push on the front of the nesting stack
PushFront(stk, node) == <<Body(Append(stk[1].c, node))>> \o Tail(stk)

\* mutant of LevelOk: the assertion left out
LevelOkAlways(level) == TRUE

\* assert!(level == 0)
LevelOk(level) == level = 0

\* the outcome of parse: a panic, or the forest; rest is what is left of the deque
ParsePanic(rest) == [ok |-> FALSE, forest |-> <<>>, rest |-> rest]
ParseOk(f) == [ok |-> TRUE, forest |-> f, rest |-> <<>>]

RECURSIVE ParseLoop(_, _, _)
ParseLoop(toks, stk, level) ==
    IF Len(toks) = 0
    THEN IF LevelOk(level) THEN ParseOk(stk[1].c) ELSE ParsePanic(toks)
    ELSE LET tok == Head(toks) IN
         CASE tok = "(" -> ParseLoop(Tail(toks), <<Body(<<>>)>> \o stk, level + 1)
           [] tok = ")" ->
                \* stack.front_mut().unwrap() after the pop
                IF Len(stk) < 2 THEN ParsePanic(Tail(toks))
                ELSE ParseLoop(Tail(toks), PushFront(Tail(stk), stk[1]), level - 1)
           [] OTHER -> ParseLoop(Tail(toks), PushFront(stk, ParseAtom(tok)), level)

parse(toks) == ParseLoop(toks, <<Body(<<>>)>>, 0)

\* ------------------------------------------------------------- EnvType
EnvNumber(n) == [t |-> "Number", n |-> n]
EnvNativeProc(name) == [t |-> "NativeProc", name |-> name]
\* ProcInfo::new(args, body, captured) and its accessors args(), body(), captured()
ProcInfoNew(args, body, captured) == [args |-> args, body |-> body, captured |-> captured]
EnvProc(info) == [t |-> "Proc", info |-> info]

\* ------------------------------------------------------- Env, EnvManager
EmptyMap == [x \in {} |-> None]

\* Env::new
EnvNew(id, parent) == [id |-> id, parent |-> parent, variables |-> EmptyMap]

\* Env::set
EnvSet(env, name, val) == [env EXCEPT !.variables = (name :> val) @@ @]

\* Env::get
EnvGet(env, name) == IF name \in DOMAIN env.variables THEN Some(env.variables[name]) ELSE None

\* Env::contains
EnvContains(env, name) == name \in DOMAIN env.variables

\* f64::consts::PI, in thousandths
PI == 3141

\* Env::std
EnvStd(env) == EnvSet(EnvSet(env, "*", EnvNativeProc("*")), "pi", EnvNumber(PI))

\* EnvManager::parent
parent(ps, id) == IF id \in DOMAIN ps THEN Some(ps[id]) ELSE None

\* EnvManager::find_var
RECURSIVE find_var(_, _, _, _)
find_var(es, ps, id, name) ==
    IF EnvContains(es[id], name) THEN Some(id)
    ELSE LET p == parent(ps, id)
         IN IF IsSome(p) THEN find_var(es, ps, Unwrap(p), name) ELSE None

\* mutant of NextCounter: the counter is not advanced
NextCounterStuck(c) == c

\* the counter after EnvManager::new_env
NextCounter(c) == c + 1

\* EnvManager::new_env: the store after the call; the id returned is c
new_env(es, c, par) == (c :> EnvNew(c, par)) @@ es

\* Node::resolve
resolve(node, es, ps, id) ==
    IF node.k = "Symbol"
    THEN LET o == find_var(es, ps, id, node.s)
         IN IF IsSome(o) THEN EnvGet(es[Unwrap(o)], node.s) ELSE None
    ELSE Some(EnvNumber(node.n))

\* Env::native_call: Ok(v) is Some(v), Err(_) is None
native_call(name, args) ==
    IF name = "*"
    THEN IF Len(args) # 2 THEN None
         ELSE IF args[1].t # "Number" \/ args[2].t # "Number" THEN None
         ELSE Some(EnvNumber((args[1].n * args[2].n) \div 1000))
    ELSE None

\* ------------------------------------------------- the programs evaluated
\* The top-level forms main may hand to eval, as token sequences read by parse.
PoolTokens == {
    <<"(", "define", "x", "5", ")">>,
    <<"x">>,
    <<"(", "define", "outer", "(", "lambda", "(", "a", ")",
          "(", "lambda", "(", "b", ")", "(", "*", "a", "b", ")", ")", ")", ")">>,
    <<"(", "(", "outer", "3", ")", "2", ")">>,
    <<"(", "define", "g", "(", "outer", "3", ")", ")">>,
    <<"(", "g", "2", ")">>,
    <<"(", "(", "lambda", "(", "a", ")", "a", ")", "7", ")">>,
    <<"(", "*", "(", "define", "y", "1", ")", "2", ")">>,
    <<"(", "*", "pi", "2", ")">>,
    <<"(", "*", "1", "2", "3", ")">>,
    <<"(", "define", "x", "(", "define", "y", "1", ")", ")">>,
    <<"(", "5", "foo", ")">>,
    <<"(", "define", "x", "1", "2", ")">>,
    <<"(", "define", "x", ")">>,
    <<"(", "define", "7", "1", ")">>,
    <<"(", "lambda", "(", "a", ")", "a", "a", ")">>,
    <<"(", "lambda", "(", "a", ")", ")">>,
    <<"(", ")">>,
    <<"(", "(", "lambda", "(", "a", ")", "(", "define", "pi", "a", ")", ")", "9", ")">>,
    <<"(", "(", "lambda", "(", "f", "q", ")", "(", "f", ")", ")",
          "(", "lambda", "(", ")", "q", ")", "5", ")">>,
    <<"(", "(", "lambda", "(", "f", ")", "(", "f", "f", ")", ")",
          "(", "lambda", "(", "f", ")", "(", "f", "f", ")", ")", ")">>
}

Pool == {parse(t).forest[1] : t \in PoolTokens}

\* ----------------------------------------------------------------- eval
\* body[i] with Rust's zero-based index
At(body, i) == body[i + 1]

\* One activation of eval(ast, env_manager, env_id).  pc is the point the
\* activation has reached; op, i, vals and scope are its locals proc_ret, the
\* index of the next argument, arg_vals / args, and scope.
Frame(ast, env_id) ==
    [ast |-> ast, env |-> env_id, pc |-> "start", op |-> None, i |-> 0,
     vals |-> <<>>, scope |-> None]

top == stack[1]
Running == status = "running" /\ stack # <<>>

Event(kind, f) == [kind |-> kind, env |-> f.env, ast |-> f.ast, before |-> envs]

IsKeyword(body, kw) ==
    /\ Len(body) > 0
    /\ At(body, 0).k = "Symbol"
    /\ At(body, 0).s = kw

\* mutant of DefineTarget: define always writes into the root scope
DefineTargetRoot(env_id) == 0

\* the scope a define writes into (get_mut(&env_id))
DefineTarget(env_id) == env_id

\* the scope a lambda captures
LambdaCaptured(env_id) == env_id

\* mutant of CallParent: dynamic scoping, the caller's scope as parent
CallParentDynamic(info, env_id) == Some(env_id)

\* the parent given to new_env when a Procedure is applied
CallParent(info, env_id) == Some(info.captured)

\* the scope the arguments of an application are evaluated against
ArgEnv(f) == f.env

\* for (k, v) in proc.args().iter().zip(arg_vals) { env.set(k, v) }
RECURSIVE BindArgs(_, _, _, _)
BindArgs(env, params, vals, j) ==
    IF j > Len(params) \/ j > Len(vals) THEN env
    ELSE BindArgs(EnvSet(env, params[j], vals[j]), params, vals, j + 1)

Panic(kind) ==
    /\ status' = "panicked"
    /\ last' = Event(kind, top)
    /\ UNCHANGED <<envs, counter, stack, ret>>

Return(kind, v) ==
    /\ stack' = Tail(stack)
    /\ ret' = v
    /\ last' = Event(kind, top)
    /\ UNCHANGED status

Call(kind, pc, ast, env_id) ==
    /\ Len(stack) < MaxDepth
    /\ stack' = <<Frame(ast, env_id), [top EXCEPT !.pc = pc]>> \o Tail(stack)
    /\ last' = Event(kind, top)
    /\ UNCHANGED <<status, ret>>

Frozen == UNCHANGED <<mode, text, tokens, parsed, parents>>

\* main: for n in &ast { Parser::eval(n, &mut env_manager, root_env) }
MainEval ==
    /\ mode = "eval" /\ status = "idle" /\ nforms < MaxForms
    /\ \E form \in Pool :
          /\ stack' = <<Frame(form, 0)>>
          /\ last' = [kind |-> "main", env |-> 0, ast |-> form, before |-> envs]
    /\ status' = "running"
    /\ nforms' = nforms + 1
    /\ envs0' = envs
    /\ ret' = None
    /\ UNCHANGED <<envs, counter>>
    /\ Frozen

\* main: println!("{:?}", res)
MainPrint ==
    /\ mode = "eval" /\ status = "running" /\ stack = <<>>
    /\ status' = "idle"
    /\ last' = [last EXCEPT !.kind = "print", !.before = envs]
    /\ UNCHANGED <<envs, counter, stack, ret, nforms, envs0>>
    /\ Frozen

\* eval, lines 130-139: a Leaf is resolved
EvalLeaf ==
    /\ Running /\ top.pc = "start" /\ IsLeaf(top.ast)
    /\ LET val == resolve(top.ast, envs, parents, top.env)
       IN IF val = None THEN Panic("leaf")
          ELSE Return("leaf", val) /\ UNCHANGED <<envs, counter>>
    /\ UNCHANGED <<nforms, envs0>>
    /\ Frozen

\* eval, lines 147-148: define evaluates body[2]
EvalDefine ==
    /\ Running /\ top.pc = "start" /\ ~IsLeaf(top.ast)
    /\ IsKeyword(top.ast.c, "define")
    /\ IF Len(top.ast.c) < 3 THEN Panic("define_index")
       ELSE Call("define_expr", "define", At(top.ast.c, 2), top.env)
            /\ UNCHANGED <<envs, counter>>
    /\ UNCHANGED <<nforms, envs0>>
    /\ Frozen

\* eval, lines 148-151: the value is unwrapped and set under body[1]
DefineSet ==
    /\ Running /\ top.pc = "define"
    /\ IF ret = None THEN Panic("define_unwrap")
       ELSE IF At(top.ast.c, 1).k # "Symbol" THEN Panic("define_name")
       ELSE /\ envs' = [envs EXCEPT ![DefineTarget(top.env)] =
                            EnvSet(@, At(top.ast.c, 1).s, Unwrap(ret))]
            /\ Return("define", None)
            /\ UNCHANGED counter
    /\ UNCHANGED <<nforms, envs0>>
    /\ Frozen

\* eval, lines 153-156: lambda
EvalLambda ==
    /\ Running /\ top.pc = "start" /\ ~IsLeaf(top.ast)
    /\ IsKeyword(top.ast.c, "lambda")
    /\ LET body == top.ast.c IN
       IF \/ Len(body) < 2
          \/ At(body, 1).k # "Body"
          \/ \E j \in 1..Len(At(body, 1).c) : At(body, 1).c[j].k # "Symbol"
          \/ Len(body) < 3
       THEN Panic("lambda_shape")
       ELSE LET args == [j \in 1..Len(At(body, 1).c) |-> At(body, 1).c[j].s]
            IN Return("lambda",
                      Some(EnvProc(ProcInfoNew(args, At(body, 2), LambdaCaptured(top.env)))))
               /\ UNCHANGED <<envs, counter>>
    /\ UNCHANGED <<nforms, envs0>>
    /\ Frozen

\* eval, lines 144 and 161: the operator position is evaluated
EvalOperator ==
    /\ Running /\ top.pc = "start" /\ ~IsLeaf(top.ast)
    /\ ~IsKeyword(top.ast.c, "define") /\ ~IsKeyword(top.ast.c, "lambda")
    /\ IF Len(top.ast.c) = 0 THEN Panic("empty_body")
       ELSE Call("operator", "operator", At(top.ast.c, 0), top.env)
            /\ UNCHANGED <<envs, counter>>
    /\ UNCHANGED <<nforms, envs0>>
    /\ Frozen

\* eval, lines 163, 167-168 and 182: dispatch on proc_ret
Dispatch ==
    /\ Running /\ top.pc = "operator"
    /\ IF IsSome(ret) /\ Unwrap(ret).t = "NativeProc"
       THEN /\ stack' = <<[top EXCEPT !.pc = "args", !.op = ret, !.i = 1]>> \o Tail(stack)
            /\ last' = Event("dispatch_native", top)
            /\ UNCHANGED <<envs, counter, ret, status>>
       ELSE IF IsSome(ret) /\ Unwrap(ret).t = "Proc"
       THEN /\ envs' = new_env(envs, counter, CallParent(Unwrap(ret).info, top.env))
            /\ counter' = NextCounter(counter)
            /\ stack' = <<[top EXCEPT !.pc = "args", !.op = ret, !.i = 1,
                                      !.scope = Some(counter)]>> \o Tail(stack)
            /\ last' = Event("dispatch_proc", top)
            /\ UNCHANGED <<ret, status>>
       ELSE Return("dispatch_other", ret) /\ UNCHANGED <<envs, counter>>
    /\ UNCHANGED <<nforms, envs0>>
    /\ Frozen

\* eval, lines 164 and 170: the next argument is evaluated
EvalArg ==
    /\ Running /\ top.pc = "args" /\ top.i < Len(top.ast.c)
    /\ Call("arg", "arg", At(top.ast.c, top.i), ArgEnv(top))
    /\ UNCHANGED <<envs, counter, nforms, envs0>>
    /\ Frozen

\* eval, lines 164 and 170: the argument's value is unwrapped and collected
ArgReturn ==
    /\ Running /\ top.pc = "arg"
    /\ IF ret = None THEN Panic("arg_unwrap")
       ELSE /\ stack' = <<[top EXCEPT !.pc = "args", !.i = @ + 1,
                                      !.vals = Append(@, Unwrap(ret))]>> \o Tail(stack)
            /\ last' = Event("arg_value", top)
            /\ UNCHANGED <<envs, counter, ret, status>>
    /\ UNCHANGED <<nforms, envs0>>
    /\ Frozen

\* eval, lines 165-166: the native procedure is called
NativeApply ==
    /\ Running /\ top.pc = "args" /\ top.i >= Len(top.ast.c)
    /\ Unwrap(top.op).t = "NativeProc"
    /\ LET r == native_call(Unwrap(top.op).name, top.vals)
       IN IF r = None THEN Panic("native_err") ELSE Return("native", r)
    /\ UNCHANGED <<envs, counter, nforms, envs0>>
    /\ Frozen

\* eval, lines 172-177: the parameters are bound and the body is evaluated
ProcApply ==
    /\ Running /\ top.pc = "args" /\ top.i >= Len(top.ast.c)
    /\ Unwrap(top.op).t = "Proc"
    /\ LET info == Unwrap(top.op).info
           scope == Unwrap(top.scope)
       IN /\ envs' = [envs EXCEPT ![scope] = BindArgs(@, info.args, top.vals, 1)]
          /\ Call("call", "body", info.body, scope)
    /\ UNCHANGED <<counter, nforms, envs0>>
    /\ Frozen

\* eval, line 178: the body's value is unwrapped and returned
ProcReturn ==
    /\ Running /\ top.pc = "body"
    /\ IF ret = None THEN Panic("body_unwrap")
       ELSE Return("return", ret)
    /\ UNCHANGED <<envs, counter, nforms, envs0>>
    /\ Frozen

\* EnvManager::new followed by EnvManager::std_env
std_env == (0 :> EnvStd(EnvNew(0, None)))

Init ==
    /\ mode = "eval"
    /\ text = <<>> /\ tokens = <<>> /\ parsed = ParsePanic(<<>>)
    /\ envs = std_env
    /\ parents = EmptyMap
    /\ counter = 1
    /\ stack = <<>>
    /\ ret = None
    /\ status = "idle"
    /\ nforms = 0
    /\ envs0 = std_env
    /\ last = [kind |-> "init", env |-> 0, ast |-> Body(<<>>), before |-> std_env]

Next ==
    \/ MainEval
    \/ MainPrint
    \/ EvalLeaf
    \/ EvalDefine
    \/ DefineSet
    \/ EvalLambda
    \/ EvalOperator
    \/ Dispatch
    \/ EvalArg
    \/ ArgReturn
    \/ NativeApply
    \/ ProcApply
    \/ ProcReturn

Spec == Init /\ [][Next]_vars

\* ---------------------------------------------- tokenise and parse alone
\* The evaluator's variables while only the front end runs.
EvalIdle ==
    /\ envs = std_env /\ parents = EmptyMap /\ counter = 1
    /\ stack = <<>> /\ ret = None /\ status = "idle" /\ nforms = 0
    /\ envs0 = std_env

FrontLast(kind, input) == [kind |-> kind, input |-> input]

InitTok ==
    /\ mode = "tok"
    /\ text \in SeqsUpTo(Chars, MaxLen)
    /\ tokens = <<>> /\ parsed = ParsePanic(<<>>)
    /\ EvalIdle
    /\ last = FrontLast("init", <<>>)

\* main: let mut tokens = Parser::tokenise(test)
Tokenise ==
    /\ mode = "tok" /\ status = "idle"
    /\ tokens' = tokenise(text)
    /\ status' = "done"
    /\ last' = FrontLast("tokenise", text)
    /\ UNCHANGED <<mode, text, parsed, envs, parents, counter, stack, ret, nforms, envs0>>

NextTok == Tokenise

SpecTok == InitTok /\ [][NextTok]_vars

\* The tokens parse is given: parens, a symbol and a numeric literal.
ParseToks == {"(", ")", "x", "1"}

InitParse ==
    /\ mode = "parse"
    /\ text = <<>>
    /\ tokens \in SeqsUpTo(ParseToks, MaxToks)
    /\ parsed = ParsePanic(<<>>)
    /\ EvalIdle
    /\ last = FrontLast("init", <<>>)

\* main: let ast = Parser::parse(&mut tokens); last.input keeps the tokens given
Parse ==
    /\ mode = "parse" /\ status = "idle"
    /\ parsed' = parse(tokens)
    /\ tokens' = parsed'.rest
    /\ status' = "done"
    /\ last' = FrontLast("parse", tokens)
    /\ UNCHANGED <<mode, text, envs, parents, counter, stack, ret, nforms, envs0>>

NextParse == Parse

SpecParse == InitParse /\ [][NextParse]_vars

\* ================================================================ claims

\* The scopes reached from id through the parent each scope was created with.
RECURSIVE Chain(_, _)
Chain(es, id) ==
    {id} \cup (IF es[id].parent = None THEN {} ELSE Chain(es, Unwrap(es[id].parent)))

\* The nearest scope of the chain of id that binds name, if any.
RECURSIVE Nearest(_, _, _)
Nearest(es, id, name) ==
    IF name \in DOMAIN es[id].variables THEN Some(id)
    ELSE IF es[id].parent = None THEN None
    ELSE Nearest(es, Unwrap(es[id].parent), name)

BoundOnChain(es, id, name) == \E s \in Chain(es, id) : name \in DOMAIN es[s].variables

Names == {"*", "pi", "x", "y", "a", "b", "f", "g", "q", "outer", "foo"}

LookedUp == last.kind = "leaf" /\ last.ast.k = "Symbol"

\* C1 (closure capture): a symbol evaluated in scope s, in particular in the
\* body of an applied Procedure, resolves whenever the name is bound in s or in
\* a scope on the parent chain of s (the captured scope and its ancestors up to
\* the root): the lookup does not fail.
C1_ClosureResolves ==
    (mode = "eval" /\ LookedUp /\ BoundOnChain(envs, last.env, last.ast.s))
        => status # "panicked"

\* C2 (lookup_owner): for every existing scope and every name, find_var returns
\* the nearest scope on the chain of parents given to new_env that binds the
\* name, and nothing only if no scope of the chain binds it.
C2_FindVarNearest ==
    mode = "eval" =>
        \A id \in DOMAIN envs : \A name \in Names :
            find_var(envs, parents, id, name) = Nearest(envs, id, name)

\* C3 (lexical scoping): every argument of an application is evaluated against
\* the caller's scope, in order; the body of an applied Procedure is evaluated
\* in a scope created by that application whose parent is the captured scope
\* and which binds parameters only; a name bound neither in the scope of the
\* lookup nor on its parent chain is not resolved, whatever the callers bind.
C3_LexicalScoping ==
    mode = "eval" =>
        /\ \A j \in 2..Len(stack) :
              /\ stack[j].pc = "arg" =>
                    /\ stack[j - 1].env = stack[j].env
                    /\ stack[j - 1].ast = At(stack[j].ast.c, stack[j].i)
                    /\ Len(stack[j].vals) = stack[j].i - 1
              /\ stack[j].pc = "body" =>
                    LET scope == Unwrap(stack[j].scope)
                        info == Unwrap(stack[j].op).info
                    IN /\ stack[j - 1].env = scope
                       /\ envs[scope].parent = Some(info.captured)
                       /\ scope # stack[j].env
                       /\ DOMAIN envs[scope].variables \subseteq
                              {info.args[n] : n \in 1..Len(info.args)}
        /\ (last.kind = "dispatch_proc" /\ status = "running") =>
              Unwrap(top.scope) \notin DOMAIN last.before
        /\ (LookedUp /\ ~BoundOnChain(envs, last.env, last.ast.s)) => status = "panicked"

\* C3 happens: the body of a Procedure fails to resolve a name that only the
\* caller's scope binds.
C3_Witness ==
    /\ mode = "eval" /\ LookedUp /\ status = "panicked"
    /\ Len(stack) >= 2 /\ stack[2].pc = "body"
    /\ stack[2].env # 0
    /\ last.ast.s \in DOMAIN envs[stack[2].env].variables
    /\ stack[2].env \notin Chain(envs, stack[1].env)

\* C4 (lexical shadowing): a define evaluated in scope L changes no other
\* scope, in particular no ancestor of L, also when an ancestor binds the name;
\* in L it changes the binding of the defined name only.
C4_DefineWritesOnlyLocal ==
    (mode = "eval" /\ last.kind = "define") =>
        /\ \A s \in DOMAIN last.before \ {last.env} : envs[s] = last.before[s]
        /\ \A s \in Chain(envs, last.env) \ {last.env} : envs[s] = last.before[s]
        /\ \A n \in DOMAIN envs[last.env].variables \ {At(last.ast.c, 1).s} :
              /\ n \in DOMAIN last.before[last.env].variables
              /\ envs[last.env].variables[n] = last.before[last.env].variables[n]
        /\ At(last.ast.c, 1).s \in DOMAIN envs[last.env].variables

\* C4 happens: a define in the local scope of a call has bound a name that the
\* root, an ancestor, binds too.
C4_Witness ==
    /\ mode = "eval" /\ last.kind = "define"
    /\ last.env # 0
    /\ 0 \in Chain(envs, last.env)
    /\ At(last.ast.c, 1).s \in DOMAIN envs[0].variables
    /\ LET l == envs[last.env].variables[At(last.ast.c, 1).s]
           r == envs[0].variables[At(last.ast.c, 1).s]
       IN l.t = "Number" /\ r.t = "Number" /\ l.n # r.n

\* C5 (no partial mutation on failure): when the evaluation of a top-level form
\* fails, every scope that existed when it started has the bindings it had then.
C5_NoPartialMutation ==
    (mode = "eval" /\ status = "panicked") =>
        \A s \in DOMAIN envs0 : envs[s].variables = envs0[s].variables

\* C6 (not callable): an application whose operator evaluates to a value that
\* is neither a NativeProcedure nor a Procedure fails; it produces no value.
C6_NotCallableFails ==
    (mode = "eval" /\ last.kind = "dispatch_other" /\ IsSome(ret)) => status = "panicked"

\* C9 (special-form shape): a define binds, and a lambda produces a Procedure,
\* only when exactly two children follow the keyword.
C9_SpecialFormShape ==
    (mode = "eval" /\ last.kind \in {"define", "lambda"}) => Len(last.ast.c) = 3

\* The scope ids captured by the Procedure values among a sequence of values.
CapturedIn(vals) ==
    {vals[j].info.captured : j \in {i \in 1..Len(vals) : vals[i].t = "Proc"}}

\* The scope ids captured by Procedures held in bindings, in the value just
\* returned, and in the locals of the activations of eval.
CapturedHeld ==
    UNION {{envs[s].variables[n].info.captured :
              n \in {m \in DOMAIN envs[s].variables : envs[s].variables[m].t = "Proc"}} :
           s \in DOMAIN envs}
    \cup CapturedIn(ret)
    \cup UNION {CapturedIn(stack[j].op) \cup CapturedIn(stack[j].vals) : j \in 1..Len(stack)}

\* C10 (store integrity): the ids handed out are 0..counter-1, each scope
\* stored under its own id; a parent link names a scope created strictly
\* earlier; every captured scope of a Procedure in a binding or in flight is in
\* the store, and was there before the lambda that made the Procedure; new_env
\* returns an id no earlier scope has, and no scope or parent link goes away.
C10_StoreIntegrity ==
    mode = "eval" =>
        /\ DOMAIN envs = 0..(counter - 1)
        /\ \A s \in DOMAIN envs :
              /\ envs[s].id = s
              /\ envs[s].parent # None =>
                    /\ Unwrap(envs[s].parent) \in DOMAIN envs
                    /\ Unwrap(envs[s].parent) < s
        /\ envs[0].parent = None
        /\ CapturedHeld \subseteq DOMAIN envs
        /\ (last.kind = "lambda" /\ status = "running") =>
              CapturedIn(ret) \subseteq DOMAIN last.before
        /\ DOMAIN last.before \subseteq DOMAIN envs
        /\ \A s \in DOMAIN last.before : envs[s].parent = last.before[s].parent
        /\ (last.kind = "dispatch_proc" /\ status = "running") =>
              /\ Unwrap(top.scope) \notin DOMAIN last.before
              /\ Unwrap(top.scope) \in DOMAIN envs

\* C10 happens: a call has returned a Procedure that captured the call's own
\* scope, a scope with a parent.
C10_Witness ==
    /\ mode = "eval" /\ last.kind = "return"
    /\ IsSome(ret) /\ Unwrap(ret).t = "Proc"
    /\ envs[Unwrap(ret).info.captured].parent # None

\* ------------------------------------------------------------ parse claim
Count(toks, n, tok) == Cardinality({i \in 1..n : toks[i] = tok})

\* nesting depth after the first n tokens
Depth(toks, n) == Count(toks, n, "(") - Count(toks, n, ")")

WellNested(toks) ==
    /\ \A n \in 1..Len(toks) : Depth(toks, n) >= 0
    /\ Depth(toks, Len(toks)) = 0

\* positions where a top-level form starts
TopStarts(toks) == {i \in 1..Len(toks) : toks[i] # ")" /\ Depth(toks, i - 1) = 0}

\* the position of the j-th top-level form
TopStart(toks, j) ==
    CHOOSE i \in TopStarts(toks) : Cardinality({h \in TopStarts(toks) : h <= i}) = j

\* C7 (parser balance): parse fails when the numbers of "(" and ")" differ or a
\* ")" has nothing open; on a well-nested sequence it succeeds with one tree
\* per top-level form, in source order (an atom as its leaf, a group as a Body).
C7_ParserBalance ==
    (mode = "parse" /\ status = "done") =>
        LET toks == last.input IN
        /\ ~WellNested(toks) => ~parsed.ok
        /\ WellNested(toks) =>
              /\ parsed.ok
              /\ Len(parsed.forest) = Cardinality(TopStarts(toks))
              /\ \A j \in 1..Len(parsed.forest) :
                    LET tok == toks[TopStart(toks, j)]
                    IN IF tok = "(" THEN parsed.forest[j].k = "Body"
                       ELSE parsed.forest[j] = ParseAtom(tok)

\* C7 happens: a well-nested sequence of an atom and a group has been parsed.
C7_Witness ==
    /\ mode = "parse" /\ status = "done"
    /\ WellNested(last.input) /\ Len(last.input) >= 4
    /\ parsed.ok /\ Len(parsed.forest) = 2
    /\ parsed.forest[1].k = "Symbol" /\ parsed.forest[2].k = "Body"

\* --------------------------------------------------------- tokenise claim
IsParen(c) == c \in {"(", ")"}
IsWhitespace(c) == c \in {" ", "\t"}
IsAtomChar(c) == ~IsParen(c) /\ ~IsWhitespace(c)

\* the end of the maximal run of atom characters that starts at i
RunEnd(s, i) ==
    CHOOSE j \in i..Len(s) :
        /\ \A h \in i..j : IsAtomChar(s[h])
        /\ j = Len(s) \/ ~IsAtomChar(s[j + 1])

\* one token per paren and one per maximal run, from position i on
RECURSIVE RunsFrom(_, _)
RunsFrom(s, i) ==
    IF i > Len(s) THEN <<>>
    ELSE IF IsParen(s[i]) THEN <<<<s[i]>>>> \o RunsFrom(s, i + 1)
    ELSE IF IsWhitespace(s[i]) THEN RunsFrom(s, i + 1)
    ELSE <<SubSeq(s, i, RunEnd(s, i))>> \o RunsFrom(s, RunEnd(s, i) + 1)

\* C8 (tokenizer completeness): tokenise returns, in source order, one token per
\* paren and one per maximal run of non-whitespace, non-paren characters, a run
\* that ends the input included; no token holds a whitespace character.
C8_TokenizerComplete ==
    (mode = "tok" /\ status = "done") =>
        /\ tokens = RunsFrom(text, 1)
        /\ \A j \in 1..Len(tokens) : \A h \in 1..Len(tokens[j]) : ~IsWhitespace(tokens[j][h])

====
